---- MODULE Spec2Model ----
(***************************************************************************)
(* The historical store of the weather dashboard: WeatherService keeps a  *)
(* bounded, newest-first array of readings as one JSON blob in            *)
(* localStorage under STORAGE_KEY, and answers time-window queries on it.  *)
(*                                                                         *)
(* Time is counted in ticks, TicksPerHour ticks to the hour, tick 0 being *)
(* a local midnight. The local time zone is taken to have a constant UTC  *)
(* offset, so that local-hour arithmetic and instants differ by a fixed   *)
(* shift only.                                                             *)
(***************************************************************************)
EXTENDS Integers, Sequences, FiniteSets, TLC

VARIABLES
    storage,   \* localStorage.getItem(STORAGE_KEY): the blob, or no item
    now,       \* the wall clock, what new Date() reads
    log,       \* the data handed to saveWeatherReading since the store was last empty, oldest first
    lastOp,    \* the operation that ran last
    arg,       \* its argument (a reading, or a window length)
    before,    \* the blob when that operation started: its form and the length all() had
    result,    \* what it returned
    raised,    \* whether it raised an error to its caller
    page,      \* the state of the Index page: its useState values, its timer, its toast
    cycles,    \* the fetchWeatherData invocations, in the order they started
    microtask  \* the invocation whose continuation is in the microtask queue, or 0

storeVars == <<storage, now, log, lastOp, arg, before, result, raised>>
pageVars == <<page, cycles, microtask>>
vars == <<storage, now, log, lastOp, arg, before, result, raised, page, cycles, microtask>>

----------------------------------------------------------------------------
(* Program constants and the bounds of the model *)

MAX_RECORDS == 1008

PollMinutes == 15   \* the period handed to setInterval, 15 * 60 * 1000 ms

TicksPerHour == 2

MaxTime == 3        \* the clock runs over 0..MaxTime
MaxRecorded == 2    \* Spec: at most this many records between two empty stores
MaxWindow == 3      \* window lengths asked for, in ticks: 0..MaxWindow
Slack == 1          \* SpecRetention: arbitrary readings start this far below the cap
Over == 2           \* SpecRetention: and go on until this far above it
MaxCycles == 2      \* SpecPage: at most this many fetchWeatherData invocations

----------------------------------------------------------------------------
(* Values *)

\* timestamp?: string. A string is an ISO-8601 instant (what toISOString
\* writes), the empty string, or some text that is no date.
NoTimestamp    == [k |-> "undefined", t |-> 0]
EmptyTimestamp == [k |-> "empty", t |-> 0]
TextTimestamp  == [k |-> "text", t |-> 0]

\* Date.prototype.toISOString of the instant t
toISOString(t) == [k |-> "iso", t |-> t]

\* new Date(string): the instant an ISO string names, Invalid Date otherwise
DateParse(ts) ==
    IF ts.k = "iso" THEN [valid |-> TRUE, t |-> ts.t]
    ELSE [valid |-> FALSE, t |-> 0]

\* JavaScript truthiness of an optional string: undefined and "" are falsy
Truthy(ts) == ts.k \notin {"undefined", "empty"}

NumericFields ==
    {"temperature", "humidity", "pressure", "gas", "dewPoint", "cloudBase", "Rain"}

\* A WeatherData whose seven numbers are all different, built on v
WeatherData(v, ts) ==
    [temperature |-> v, humidity |-> v + 50, pressure |-> v + 1000,
     gas |-> v + 80, dewPoint |-> v - 2, cloudBase |-> v + 400,
     Rain |-> v % 3, timestamp |-> ts]

\* What localStorage holds under STORAGE_KEY
NoItem       == [form |-> "null", items |-> <<>>]        \* getItem returns null
EmptyText    == [form |-> "empty", items |-> <<>>]       \* the string ""
Malformed    == [form |-> "malformed", items |-> <<>>]   \* text that is not JSON
ObjectText   == [form |-> "object", items |-> <<>>]      \* JSON of an object
NumberText   == [form |-> "number", items |-> <<>>]      \* JSON of a number
JsonNullText == [form |-> "jsonnull", items |-> <<>>]    \* the text null

CorruptBlobs == {EmptyText, Malformed, ObjectText, NumberText, JsonNullText}

\* The outcome of running a piece of code: it returns val, or throws err
Returned(v) == [err |-> "none", val |-> v]
Thrown(e) == [err |-> e, val |-> <<>>]

----------------------------------------------------------------------------
(* JSON *)

\* JSON.stringify of an array of readings: every reading written has finite
\* numbers and a string timestamp, which JSON writes as they are
JSONstringify(historicalData) == [form |-> "array", items |-> historicalData]

\* JSON.parse: a SyntaxError on text that is no JSON, the value otherwise
JSONparse(text) ==
    IF text.form \in {"empty", "malformed"} THEN Thrown("SyntaxError")
    ELSE Returned(text)

\* Array.isArray
isArray(value) == value.form = "array"

----------------------------------------------------------------------------
(* WeatherService *)

\* The try block of getHistoricalData
getHistoricalDataTry(storedData) ==
    IF storedData.form \in {"null", "empty"} THEN Returned(<<>>)
    ELSE LET data == JSONparse(storedData) IN
         IF data.err # "none" THEN data
         ELSE IF isArray(data.val) THEN Returned(data.val.items)
         ELSE Returned(<<>>)

\* A getHistoricalData that lets the parse error out
getHistoricalData_nocatch(storedData) == getHistoricalDataTry(storedData)

\* getHistoricalData: the catch clause answers every error with []
getHistoricalData(storedData) ==
    LET tried == getHistoricalDataTry(storedData) IN
    IF tried.err = "none" THEN tried ELSE Returned(<<>>)

\* data with its timestamp populated as saveWeatherReading does at time t
WithTimestamp(data, t) ==
    [data EXCEPT !.timestamp =
        IF Truthy(data.timestamp) THEN data.timestamp ELSE toISOString(t)]

\* Array.prototype.splice(start) on an array longer than start: its first
\* start elements stay
Splice(array, start) == SubSeq(array, 1, start)

\* A saveWeatherReading without the splice
saveWeatherReading_nosplice(storedData, data, t) ==
    JSONstringify(<<WithTimestamp(data, t)>> \o getHistoricalData(storedData).val)

\* A saveWeatherReading that pushes where the code unshifts
saveWeatherReading_push(storedData, data, t) ==
    LET pushed == Append(getHistoricalData(storedData).val, WithTimestamp(data, t)) IN
    JSONstringify(IF Len(pushed) > MAX_RECORDS THEN Splice(pushed, MAX_RECORDS) ELSE pushed)

\* A saveWeatherReading that stamps every reading with the current time
saveWeatherReading_restamp(storedData, data, t) ==
    LET unshifted == <<[data EXCEPT !.timestamp = toISOString(t)]>>
                     \o getHistoricalData(storedData).val IN
    JSONstringify(IF Len(unshifted) > MAX_RECORDS THEN Splice(unshifted, MAX_RECORDS)
                  ELSE unshifted)

\* A saveWeatherReading that stamps with ?? where the code has ||: the empty
\* string stays
saveWeatherReading_nullish(storedData, data, t) ==
    LET unshifted == <<[data EXCEPT !.timestamp =
                          IF data.timestamp.k # "undefined" THEN data.timestamp
                          ELSE toISOString(t)]>>
                     \o getHistoricalData(storedData).val IN
    JSONstringify(IF Len(unshifted) > MAX_RECORDS THEN Splice(unshifted, MAX_RECORDS)
                  ELSE unshifted)

\* A saveWeatherReading that keeps the last MAX_RECORDS elements, slice(-MAX_RECORDS)
saveWeatherReading_keeplast(storedData, data, t) ==
    LET unshifted == <<WithTimestamp(data, t)>> \o getHistoricalData(storedData).val IN
    JSONstringify(IF Len(unshifted) > MAX_RECORDS
                  THEN SubSeq(unshifted, Len(unshifted) - MAX_RECORDS + 1, Len(unshifted))
                  ELSE unshifted)

\* A saveWeatherReading that gives up, and writes nothing, when the blob
\* found is no array
saveWeatherReading_bail(storedData, data, t) ==
    IF storedData.form \notin {"null", "array"} THEN storedData
    ELSE LET unshifted == <<WithTimestamp(data, t)>> \o getHistoricalData(storedData).val IN
         JSONstringify(IF Len(unshifted) > MAX_RECORDS THEN Splice(unshifted, MAX_RECORDS)
                       ELSE unshifted)

\* A saveWeatherReading that writes the new reading alone, over whatever an
\* earlier call wrote
saveWeatherReading_alone(storedData, data, t) ==
    JSONstringify(<<WithTimestamp(data, t)>>)

\* The blob saveWeatherReading(data) writes at time t over the blob storedData
saveWeatherReading(storedData, data, t) ==
    LET historicalData == getHistoricalData(storedData).val
        dataWithTimestamp == WithTimestamp(data, t)
        unshifted == <<dataWithTimestamp>> \o historicalData
        spliced == IF Len(unshifted) > MAX_RECORDS
                   THEN Splice(unshifted, MAX_RECORDS)
                   ELSE unshifted
    IN JSONstringify(spliced)

\* A clearHistoricalData that removes nothing
clearHistoricalData_keep(storedData) == storedData

\* clearHistoricalData: removeItem
clearHistoricalData(storedData) == NoItem

\* Truncation toward zero of a / b (b > 0): ToIntegerOrInfinity, which
\* Date.prototype.setHours applies to its hour argument
TruncDiv(a, b) == IF a >= 0 THEN a \div b ELSE -((-a) \div b)

\* A cutoff that lies hours ahead of t: setHours(getHours() + hours)
CutoffTime_ahead(t, hoursTicks) ==
    LET ticksPerDay == 24 * TicksPerHour
        dayStart == t - (t % ticksPerDay)
        getHours == (t % ticksPerDay) \div TicksPerHour
        withinHour == t % TicksPerHour
        hour == TruncDiv(getHours * TicksPerHour + hoursTicks, TicksPerHour)
    IN dayStart + hour * TicksPerHour + withinHour

\* cutoffTime = new Date(); cutoffTime.setHours(cutoffTime.getHours() - hours)
\* at time t. The window length is given in ticks: hours = hoursTicks /
\* TicksPerHour. setHours keeps the day and the minutes, seconds and
\* milliseconds of t and replaces the hour of the day; an hour outside
\* 0..23 carries into the day.
CutoffTime(t, hoursTicks) ==
    LET ticksPerDay == 24 * TicksPerHour
        dayStart == t - (t % ticksPerDay)
        getHours == (t % ticksPerDay) \div TicksPerHour
        withinHour == t % TicksPerHour
        hour == TruncDiv(getHours * TicksPerHour - hoursTicks, TicksPerHour)
    IN dayStart + hour * TicksPerHour + withinHour

\* The filter callback of getDataForPeriod
InPeriod(reading, cutoffTime) ==
    IF ~Truthy(reading.timestamp) THEN FALSE
    ELSE LET readingTime == DateParse(reading.timestamp) IN
         readingTime.valid /\ readingTime.t >= cutoffTime

\* Array.prototype.filter with that callback
RECURSIVE FilterPeriod(_, _)
FilterPeriod(allData, cutoffTime) ==
    IF allData = <<>> THEN <<>>
    ELSE (IF InPeriod(Head(allData), cutoffTime) THEN <<Head(allData)>> ELSE <<>>)
         \o FilterPeriod(Tail(allData), cutoffTime)

\* getDataForPeriod(hours) at time t
getDataForPeriod(storedData, hoursTicks, t) ==
    LET allData == getHistoricalData(storedData).val
        cutoffTime == CutoffTime(t, hoursTicks)
    IN FilterPeriod(allData, cutoffTime)

\* A reduce callback whose dewPoint line adds the temperature
AddReading_slip(acc, reading) ==
    [temperature |-> acc.temperature + reading.temperature,
     humidity |-> acc.humidity + reading.humidity,
     pressure |-> acc.pressure + reading.pressure,
     gas |-> acc.gas + reading.gas,
     dewPoint |-> acc.dewPoint + reading.temperature,
     cloudBase |-> acc.cloudBase + reading.cloudBase,
     Rain |-> acc.Rain + reading.Rain]

\* The reduce callback of getAverageForPeriod
AddReading(acc, reading) ==
    [temperature |-> acc.temperature + reading.temperature,
     humidity |-> acc.humidity + reading.humidity,
     pressure |-> acc.pressure + reading.pressure,
     gas |-> acc.gas + reading.gas,
     dewPoint |-> acc.dewPoint + reading.dewPoint,
     cloudBase |-> acc.cloudBase + reading.cloudBase,
     Rain |-> acc.Rain + reading.Rain]

\* Array.prototype.reduce with that callback, left to right
RECURSIVE Reduce(_, _)
Reduce(data, acc) ==
    IF data = <<>> THEN acc ELSE Reduce(Tail(data), AddReading(acc, Head(data)))

\* The number total / count (count > 0), as whole part and remainder
Quotient(total, count) ==
    [whole |-> total \div count, rem |-> total % count, over |-> count]

\* The value null
Null == [isNull |-> TRUE]

\* getAverageForPeriod(hours) at time t
getAverageForPeriod(storedData, hoursTicks, t) ==
    LET data == getDataForPeriod(storedData, hoursTicks, t) IN
    IF Len(data) = 0 THEN Null
    ELSE LET totals == Reduce(data,
                 [temperature |-> 0, humidity |-> 0, pressure |-> 0, gas |-> 0,
                  dewPoint |-> 0, cloudBase |-> 0, Rain |-> 0])
             count == Len(data)
         IN [isNull |-> FALSE,
             temperature |-> Quotient(totals.temperature, count),
             humidity |-> Quotient(totals.humidity, count),
             pressure |-> Quotient(totals.pressure, count),
             gas |-> Quotient(totals.gas, count),
             dewPoint |-> Quotient(totals.dewPoint, count),
             cloudBase |-> Quotient(totals.cloudBase, count),
             Rain |-> Quotient(totals.Rain, count)]

\* An element null of a stored array, as JSON.parse makes of the text [null]
isNullElement(reading) == "isNull" \in DOMAIN reading

\* getDataForPeriod as a call that may throw: the filter callback reads
\* reading.timestamp of every element, a TypeError on an element null, and
\* nothing in getDataForPeriod catches it
getDataForPeriodTry(storedData, hoursTicks, t) ==
    LET allData == getHistoricalData(storedData).val IN
    IF \E i \in 1..Len(allData) : isNullElement(allData[i])
    THEN Thrown("TypeError")
    ELSE Returned(getDataForPeriod(storedData, hoursTicks, t))

\* getAverageForPeriod as a call that may throw: what getDataForPeriod
\* throws passes through it
getAverageForPeriodTry(storedData, hoursTicks, t) ==
    LET data == getDataForPeriodTry(storedData, hoursTicks, t) IN
    IF data.err # "none" THEN data
    ELSE Returned(getAverageForPeriod(storedData, hoursTicks, t))

----------------------------------------------------------------------------
(* The operations, as steps *)

\* What a call finds in the store: the form of the blob and the number of
\* readings getHistoricalData makes of it
Held(storedData) ==
    [form |-> storedData.form, length |-> Len(getHistoricalData(storedData).val)]

\* What response.json() gives: a value of some kind (an object, an array,
\* null, a string), the typeof of each of the seven properties read from it,
\* and those properties as a WeatherData
Payload(kind, types, data) == [kind |-> kind, types |-> types, data |-> data]

AllNumbers == [f \in NumericFields |-> "number"]

NoProperties == [f \in NumericFields |-> "undefined"]

NoPayload == Payload("undefined", NoProperties, WeatherData(0, NoTimestamp))

\* What the station does with a request: the fetch is rejected, the status
\* is not OK, the content type is not JSON, the body is no JSON, or the
\* body parses to a payload
Response(does, payload) == [does |-> does, payload |-> payload]

\* The Index component as first rendered: the initial useState values, no
\* effect run yet, no timer, no toast
PageInit ==
    [phase |-> "rendered", currentWeather |-> Null, historicalData |-> <<>>,
     openWeatherData |-> FALSE, isLoading |-> FALSE, lastUpdate |-> -1,
     connectionError |-> "null", usingMockData |-> FALSE, toast |-> "none",
     interval |-> 0, started |-> 0]

\* A fetchWeatherData invocation that has not started
IdleCycle ==
    [pc |-> "idle", trigger |-> "none", response |-> Response("none", NoPayload),
     fetched |-> Null,
     records |-> 0]

NoCycles == [c \in 1..MaxCycles |-> IdleCycle]

Init ==
    /\ storage \in {NoItem} \cup CorruptBlobs
    /\ now = 0
    /\ log = <<>>
    /\ lastOp = "init"
    /\ arg = 0
    /\ before = Held(storage)
    /\ result = <<>>
    /\ raised = FALSE
    /\ page = PageInit
    /\ cycles = NoCycles
    /\ microtask = 0

\* The timestamps callers hand in: none, "", text that is no date, the
\* earliest instant and the latest one
Timestamps ==
    {NoTimestamp, EmptyTimestamp, TextTimestamp, toISOString(0), toISOString(MaxTime)}

Readings == {WeatherData(v, ts) : v \in {10, 20}, ts \in Timestamps}

RecordCall(data) ==
    /\ storage' = saveWeatherReading(storage, data, now)
    /\ log' = Append(log, data)
    /\ lastOp' = "record"
    /\ arg' = data
    /\ before' = Held(storage)
    /\ result' = <<>>
    /\ raised' = FALSE
    /\ UNCHANGED now

ClearCall ==
    /\ storage' = clearHistoricalData(storage)
    /\ log' = <<>>
    /\ lastOp' = "clear"
    /\ arg' = 0
    /\ before' = Held(storage)
    /\ result' = <<>>
    /\ raised' = FALSE
    /\ UNCHANGED now

\* A getHistoricalData call whose catch clause removes the blob it could
\* not parse
AllCall_repair ==
    /\ LET out == getHistoricalData(storage) IN
        /\ result' = out.val
        /\ raised' = (out.err # "none")
    /\ storage' = IF getHistoricalDataTry(storage).err # "none" THEN NoItem ELSE storage
    /\ lastOp' = "all"
    /\ arg' = 0
    /\ before' = Held(storage)
    /\ UNCHANGED <<now, log>>

AllCall ==
    /\ LET out == getHistoricalData(storage) IN
        /\ result' = out.val
        /\ raised' = (out.err # "none")
    /\ lastOp' = "all"
    /\ arg' = 0
    /\ before' = Held(storage)
    /\ UNCHANGED <<storage, now, log>>

ForWindowCall(hoursTicks) ==
    /\ LET out == getDataForPeriodTry(storage, hoursTicks, now) IN
        /\ result' = out.val
        /\ raised' = (out.err # "none")
    /\ lastOp' = "forWindow"
    /\ arg' = hoursTicks
    /\ before' = Held(storage)
    /\ UNCHANGED <<storage, now, log>>

AverageCall(hoursTicks) ==
    /\ LET out == getAverageForPeriodTry(storage, hoursTicks, now) IN
        /\ result' = out.val
        /\ raised' = (out.err # "none")
    /\ lastOp' = "average"
    /\ arg' = hoursTicks
    /\ before' = Held(storage)
    /\ UNCHANGED <<storage, now, log>>

Tick ==
    /\ now < MaxTime
    /\ now' = now + 1
    /\ lastOp' = "tick"
    /\ arg' = 0
    /\ before' = Held(storage)
    /\ result' = <<>>
    /\ raised' = FALSE
    /\ UNCHANGED <<storage, log>>

\* The store operations called directly, no page around them
Next ==
    \/ \E data \in Readings : Len(log) < MaxRecorded /\ RecordCall(data) /\ UNCHANGED pageVars
    \/ ClearCall /\ UNCHANGED pageVars
    \/ AllCall /\ UNCHANGED pageVars
    \/ \E hoursTicks \in 0..MaxWindow : ForWindowCall(hoursTicks) /\ UNCHANGED pageVars
    \/ \E hoursTicks \in 0..MaxWindow : AverageCall(hoursTicks) /\ UNCHANGED pageVars
    \/ Tick /\ UNCHANGED pageVars

Spec == Init /\ [][Next]_vars

----------------------------------------------------------------------------
(* The retention workload: the store is filled with a series of readings,  *)
(* one per tick, up to Slack below the cap; from there on each record is   *)
(* given any of a few readings, until Over records above the cap.          *)

\* The n-th reading of the series
SeriesReading(n) == WeatherData(n, toISOString(n))

RetentionReadings ==
    IF Len(log) < MAX_RECORDS - Slack
    THEN {SeriesReading(Len(log) + 1)}
    ELSE {SeriesReading(Len(log) + 1), WeatherData(10, NoTimestamp),
          WeatherData(20, toISOString(0))}

NextRetention ==
    \/ \E data \in RetentionReadings :
           Len(log) < MAX_RECORDS + Over /\ RecordCall(data) /\ UNCHANGED pageVars
    \/ ClearCall /\ UNCHANGED pageVars
    \/ AllCall /\ UNCHANGED pageVars

SpecRetention == Init /\ [][NextRetention]_vars

----------------------------------------------------------------------------
(* Properties of the store *)

\* all(), read off the blob
All == getHistoricalData(storage).val

\* C1: the sequence all() returns never has more than 1008 entries, after
\* any records and clears from an empty store.
C1_AtMostCap == Len(All) <= 1008

\* A record onto a store that already held 1008 readings
C1_Witness == lastOp = "record" /\ before.length = 1008 /\ Len(All) = 1008

\* The reading all() shows for a reading handed to record(): the same seven
\* numbers, its own timestamp if it had one, some timestamp otherwise
Shows(stored, given) ==
    /\ \A f \in NumericFields : stored[f] = given[f]
    /\ Truthy(stored.timestamp)
    /\ Truthy(given.timestamp) => stored.timestamp = given.timestamp

\* C2: after N > cap records on an empty store, all() has exactly cap
\* entries, the cap most recently recorded readings, newest first: all()[i]
\* is the (N-i+1)-th reading recorded, so all()[1] is the N-th and all()[cap]
\* the (N-cap+1)-th.
C2_MostRecentCap ==
    LET N == Len(log) IN
    N > MAX_RECORDS =>
        /\ Len(All) = MAX_RECORDS
        /\ \A i \in 1..MAX_RECORDS : Shows(All[i], log[N - i + 1])

\* 1010 records: the newest is first and the third recorded is last
C2_Witness ==
    /\ Len(log) = 1010
    /\ Len(All) = 1008
    /\ Shows(All[1], log[1010])
    /\ All[1008] = SeriesReading(3)

\* C3: right after record(r), all()[0] equals r in every field, except that
\* its timestamp is populated: r's own when r had one (a non-empty string),
\* the current time when r had none.
C3_RecordThenAll ==
    lastOp = "record" =>
        /\ Len(All) >= 1
        /\ DOMAIN All[1] = DOMAIN arg
        /\ \A f \in NumericFields : All[1][f] = arg[f]
        /\ All[1].timestamp =
               IF Truthy(arg.timestamp) THEN arg.timestamp ELSE toISOString(now)

\* A reading without timestamp recorded after the clock has moved, and
\* another one with its own timestamp
C3_Witness ==
    /\ lastOp = "record"
    /\ now > 0
    /\ Len(All) >= 2
    /\ arg.timestamp = NoTimestamp
    /\ All[1].timestamp = toISOString(now)
    /\ All[2].timestamp = toISOString(0)

\* C4: every reading of the persisted sequence has a non-empty timestamp,
\* also when record() was given no timestamp or the empty string.
C4_TimestampsPopulated ==
    \A i \in 1..Len(All) : All[i].timestamp.k \notin {"undefined", "empty"}

\* Both kinds of reading have been recorded
C4_Witness ==
    /\ lastOp = "record"
    /\ arg.timestamp = EmptyTimestamp
    /\ Len(log) >= 2
    /\ log[1].timestamp = NoTimestamp

\* C5: the persisted sequence is ordered newest-first: for positions i < j
\* of all(), the reading at i is not older than the reading at j.
C5_NewestFirst ==
    \A i, j \in 1..Len(All) :
        i < j =>
            LET ti == DateParse(All[i].timestamp)
                tj == DateParse(All[j].timestamp)
            IN (ti.valid /\ tj.valid) => ti.t >= tj.t

\* C6: record(r) replaces the sequence S by the first cap entries of r
\* followed by S: the readings stored keep their values and their order, the
\* length becomes min(|S|+1, cap), and only the tail can disappear.
C6_RecordFrame ==
    [][lastOp' = "record" =>
        LET S == getHistoricalData(storage).val
            T == getHistoricalData(storage').val
        IN /\ Len(T) = (IF Len(S) + 1 <= MAX_RECORDS THEN Len(S) + 1 ELSE MAX_RECORDS)
           /\ Shows(T[1], arg')
           /\ \A i \in 2..Len(T) : T[i] = S[i - 1]
    ]_vars

\* A record that pushed the oldest reading out
C6_Witness ==
    /\ lastOp = "record"
    /\ before.length = MAX_RECORDS
    /\ Len(All) = MAX_RECORDS
    /\ Len(log) = MAX_RECORDS + 1
    /\ Shows(All[MAX_RECORDS], log[2])
    /\ \A i \in 1..MAX_RECORDS : ~Shows(All[i], log[1])

\* C7: after clear(), all() is empty, whatever the store held.
C7_ClearThenAll == lastOp = "clear" => All = <<>>

\* A clear of a store holding readings
C7_Witness == lastOp = "clear" /\ before.length >= 2 /\ All = <<>>

\* C8: when the blob is missing, is not parseable JSON, or parses to
\* something that is no array, all() returns the empty sequence and raises
\* nothing.
C8_CorruptReadsEmpty ==
    (lastOp = "all" /\ before.form # "array") => (result = <<>> /\ ~raised)

\* all() on a blob that is no JSON
C8_Witness == lastOp = "all" /\ before.form = "malformed" /\ result = <<>> /\ ~raised

\* The readings of a sequence whose timestamp is an instant at or after cutoff
RECURSIVE AtOrAfter(_, _)
AtOrAfter(seq, cutoff) ==
    IF seq = <<>> THEN <<>>
    ELSE LET at == DateParse(Head(seq).timestamp) IN
         (IF at.valid /\ at.t >= cutoff THEN <<Head(seq)>> ELSE <<>>)
         \o AtOrAfter(Tail(seq), cutoff)

\* C9: forWindow(hours) returns exactly the readings of all() whose
\* timestamp is present and at or after now minus hours, in the order of
\* all(). (arg is the window in ticks, so now minus hours is now - arg.)
C9_WindowExact ==
    lastOp = "forWindow" => result = AtOrAfter(All, now - arg)

\* The sum of field f over a sequence of readings
RECURSIVE SumOf(_, _)
SumOf(seq, f) == IF seq = <<>> THEN 0 ELSE Head(seq)[f] + SumOf(Tail(seq), f)

\* C10: average(hours) gives, for each of the seven numeric fields, the sum
\* of the field over forWindow(hours) divided by the number of readings in
\* the window; for an empty window it gives null, not a record of zeros.
C10_Average ==
    lastOp = "average" =>
        LET window == getDataForPeriod(storage, arg, now) IN
        IF window = <<>> THEN result = Null
        ELSE /\ result.isNull = FALSE
             /\ \A f \in NumericFields :
                    /\ result[f].over = Len(window)
                    /\ result[f].whole * Len(window) + result[f].rem = SumOf(window, f)
                    /\ result[f].rem \in 0..(Len(window) - 1)

\* Temperatures 10 and 20 in the window: the average temperature is 15
C10_Witness ==
    /\ lastOp = "average"
    /\ LET window == getDataForPeriod(storage, arg, now) IN
        /\ Len(window) = 2
        /\ {window[1].temperature, window[2].temperature} = {10, 20}
    /\ result.temperature = [whole |-> 15, rem |-> 0, over |-> 2]

----------------------------------------------------------------------------
(* The store over a failing localStorage and over blobs other code left:   *)
(* setItem throws when the quota is exceeded, getItem and removeItem throw *)
(* when the storage is denied, and the blob may be an array whose elements *)
(* are no readings.                                                        *)

\* The text [null]
NullArray == [form |-> "array", items |-> <<Null>>]

\* A saveWeatherReading whose catch clause throws the error on
saveWeatherReadingOutcome_rethrow(storedData, data, t, setItemThrows) ==
    IF setItemThrows THEN [err |-> "QuotaExceededError", val |-> storedData]
    ELSE Returned(saveWeatherReading(storedData, data, t))

\* saveWeatherReading as a call: the blob it leaves and what it raises. An
\* error of setItem is caught and logged, and the blob stays as it was
saveWeatherReadingOutcome(storedData, data, t, setItemThrows) ==
    IF setItemThrows THEN Returned(storedData)
    ELSE Returned(saveWeatherReading(storedData, data, t))

\* getHistoricalData over a getItem that may throw: the catch answers []
getHistoricalDataOutcome(storedData, getItemThrows) ==
    IF getItemThrows THEN Returned(<<>>) ELSE getHistoricalData(storedData)

\* clearHistoricalData over a removeItem that may throw: the error is caught
\* and the blob stays
clearHistoricalDataOutcome(storedData, removeItemThrows) ==
    IF removeItemThrows THEN Returned(storedData)
    ELSE Returned(clearHistoricalData(storedData))

InitFaulty ==
    /\ storage \in {NoItem, Malformed, ObjectText, NullArray}
    /\ now = 0
    /\ log = <<>>
    /\ lastOp = "init"
    /\ arg = 0
    /\ before = Held(storage)
    /\ result = <<>>
    /\ raised = FALSE
    /\ page = PageInit
    /\ cycles = NoCycles
    /\ microtask = 0

\* saveWeatherReading(data) while setItem throws
RecordFailCall(data) ==
    /\ LET out == saveWeatherReadingOutcome(storage, data, now, TRUE) IN
        /\ storage' = out.val
        /\ raised' = (out.err # "none")
    /\ lastOp' = "recordFail"
    /\ arg' = data
    /\ before' = Held(storage)
    /\ result' = <<>>
    /\ UNCHANGED <<now, log>>

\* getHistoricalData() while getItem throws
AllFailCall ==
    /\ LET out == getHistoricalDataOutcome(storage, TRUE) IN
        /\ result' = out.val
        /\ raised' = (out.err # "none")
    /\ lastOp' = "allFail"
    /\ arg' = 0
    /\ before' = Held(storage)
    /\ UNCHANGED <<storage, now, log>>

\* clearHistoricalData() while removeItem throws
ClearFailCall ==
    /\ LET out == clearHistoricalDataOutcome(storage, TRUE) IN
        /\ storage' = out.val
        /\ raised' = (out.err # "none")
    /\ lastOp' = "clearFail"
    /\ arg' = 0
    /\ before' = Held(storage)
    /\ result' = <<>>
    /\ UNCHANGED <<now, log>>

NextFaulty ==
    \/ \E data \in Readings : Len(log) < MaxRecorded /\ RecordCall(data) /\ UNCHANGED pageVars
    \/ ClearCall /\ UNCHANGED pageVars
    \/ AllCall /\ UNCHANGED pageVars
    \/ \E hoursTicks \in 0..MaxWindow : ForWindowCall(hoursTicks) /\ UNCHANGED pageVars
    \/ \E hoursTicks \in 0..MaxWindow : AverageCall(hoursTicks) /\ UNCHANGED pageVars
    \/ Tick /\ UNCHANGED pageVars
    \/ \E data \in Readings : RecordFailCall(data) /\ UNCHANGED pageVars
    \/ AllFailCall /\ UNCHANGED pageVars
    \/ ClearFailCall /\ UNCHANGED pageVars

SpecFaulty == InitFaulty /\ [][NextFaulty]_vars

\* C12: no store operation (record, all, forWindow, average, clear) ever
\* raises an error to its caller, whatever the blob holds (nothing, text
\* that does not parse, a non-array, an array of elements that are no
\* readings) and whatever the storage does.
C12_NeverRaises == ~raised

\* C18: a blob that does not parse as an array is discarded by the next
\* record(): after record(r) on such a store, all() is the one reading r with
\* its timestamp populated, and nothing of the old blob.
C18_CorruptDiscarded ==
    (lastOp = "record" /\ before.form \notin {"null", "array"}) =>
        (Len(All) = 1 /\ Shows(All[1], arg) /\ storage.form = "array")

\* A record onto text that is no JSON
C18_Witness ==
    /\ lastOp = "record"
    /\ before.form = "malformed"
    /\ Len(All) = 1
    /\ Shows(All[1], arg)

----------------------------------------------------------------------------
(* The reading source: WeatherService.fetchFromWeatherStation, in the       *)
(* version that returns { data, isMock }, which is the shape Index reads.   *)

\* w with the property isMockData set to b
WithMockFlag(w, b) ==
    [f \in DOMAIN w \cup {"isMockData"} |-> IF f = "isMockData" THEN b ELSE w[f]]

\* A generateMockWeatherData that leaves Rain out
generateMockWeatherData_noRain(v, t) ==
    LET w == WithMockFlag(WeatherData(v, toISOString(t)), TRUE) IN
    [f \in DOMAIN w \ {"Rain"} |-> w[f]]

\* generateMockWeatherData at time t, v standing for its random draws
generateMockWeatherData(v, t) == WithMockFlag(WeatherData(v, toISOString(t)), TRUE)

\* typeof data
typeof(data) == IF data.kind \in {"object", "array", "null"} THEN "object" ELSE data.kind

\* An isValidWeatherData that does not look at Rain
isValidWeatherData_noRain(data) ==
    /\ typeof(data) = "object"
    /\ data.kind # "null"
    /\ data.types["temperature"] = "number"
    /\ data.types["humidity"] = "number"
    /\ data.types["pressure"] = "number"
    /\ data.types["gas"] = "number"
    /\ data.types["dewPoint"] = "number"
    /\ data.types["cloudBase"] = "number"

\* isValidWeatherData
isValidWeatherData(data) ==
    /\ typeof(data) = "object"
    /\ data.kind # "null"
    /\ data.types["temperature"] = "number"
    /\ data.types["humidity"] = "number"
    /\ data.types["pressure"] = "number"
    /\ data.types["gas"] = "number"
    /\ data.types["dewPoint"] = "number"
    /\ data.types["cloudBase"] = "number"
    /\ data.types["Rain"] = "number"

\* { ...data }: the properties the payload has, a property that is no number
\* as the text it is, and timestamp
OwnProperties(data) ==
    [f \in {g \in DOMAIN data.data : g \in NumericFields => data.types[g] # "undefined"} |->
        IF f \in NumericFields /\ data.types[f] # "number" THEN data.types[f]
        ELSE data.data[f]]

\* A try block that hands the payload on with the timestamp it came with
fetchFromWeatherStationTry_nostamp(response, t) ==
    IF response.does = "json" /\ isValidWeatherData(response.payload)
    THEN Returned([data |-> WithMockFlag(OwnProperties(response.payload), FALSE),
                   isMock |-> FALSE])
    ELSE Thrown("no reading")

\* The try block of fetchFromWeatherStation at time t
fetchFromWeatherStationTry(response, t) ==
    IF response.does = "rejected" THEN Thrown("TypeError")
    ELSE IF response.does = "notOk" THEN Thrown("HTTP error")
    ELSE IF response.does = "notJsonType" THEN Thrown("Expected application/json")
    ELSE IF response.does = "notJsonBody" THEN Thrown("SyntaxError")
    ELSE LET data == response.payload IN
         IF isValidWeatherData(data)
         THEN Returned([data |-> WithMockFlag(WithTimestamp(OwnProperties(data), t), FALSE),
                        isMock |-> FALSE])
         ELSE Thrown("Invalid weather data format received from station")

\* A fetchFromWeatherStation whose catch clause returns null, as an earlier
\* version of the service did
fetchFromWeatherStation_null(response, t, v) ==
    LET tried == fetchFromWeatherStationTry(response, t) IN
    IF tried.err = "none" THEN tried ELSE Returned(Null)

\* A fetchFromWeatherStation that falls back to mock data without saying so
fetchFromWeatherStation_unmarked(response, t, v) ==
    LET tried == fetchFromWeatherStationTry(response, t) IN
    IF tried.err = "none" THEN tried
    ELSE Returned([data |-> WithMockFlag(WeatherData(v, toISOString(t)), FALSE),
                   isMock |-> FALSE])

\* fetchFromWeatherStation: every error is caught and answered with mock data
fetchFromWeatherStation(response, t, v) ==
    LET tried == fetchFromWeatherStationTry(response, t) IN
    IF tried.err = "none" THEN tried
    ELSE Returned([data |-> generateMockWeatherData(v, t), isMock |-> TRUE])

----------------------------------------------------------------------------
(* The page: Index. A task (the mount effect, a timer tick, a click, a      *)
(* response of the station, the unmount) runs only when the microtask queue *)
(* is empty; the continuation after await fetchOpenWeatherData() is a       *)
(* microtask.                                                               *)

\* The temperatures the mock generator draws
MockValues == {16}

\* The bodies the station answers with: two valid payloads, one of them with
\* its own timestamp, a payload without Rain, one whose temperature is a
\* string, null, an array and a string
Payloads ==
    {Payload("object", AllNumbers, WeatherData(10, NoTimestamp)),
     Payload("object", AllNumbers, WeatherData(20, toISOString(0))),
     Payload("object", [AllNumbers EXCEPT !["Rain"] = "undefined"], WeatherData(10, NoTimestamp)),
     Payload("object", [AllNumbers EXCEPT !["temperature"] = "string"], WeatherData(10, NoTimestamp)),
     Payload("null", NoProperties, WeatherData(0, NoTimestamp)),
     Payload("array", NoProperties, WeatherData(0, NoTimestamp)),
     Payload("string", NoProperties, WeatherData(0, NoTimestamp))}

Responses ==
    {Response(does, NoPayload) : does \in {"rejected", "notOk", "notJsonType", "notJsonBody"}}
    \cup {Response("json", payload) : payload \in Payloads}

\* A state setter: React drops the update of a component that is not mounted
SetState(newPage) == IF page.phase = "mounted" THEN newPage ELSE page

\* fetchWeatherData up to its first await, as invocation number c:
\* setIsLoading(true), setConnectionError(null), and the request is out
Started(p, trigger) ==
    [p EXCEPT !.isLoading = TRUE, !.connectionError = "null", !.started = @ + 1]

\* loadHistoricalData
Loaded(p, storedData) ==
    [p EXCEPT !.historicalData = getHistoricalData(storedData).val]

\* The useEffect callback: fetchWeatherData(), loadHistoricalData(), setInterval
MountEffect ==
    /\ page.phase = "rendered"
    /\ microtask = 0
    /\ page.started < MaxCycles
    /\ LET c == page.started + 1
           mounted == [page EXCEPT !.phase = "mounted"]
       IN /\ page' = [Loaded(Started(mounted, "mount"), storage)
                        EXCEPT !.interval = PollMinutes]
          /\ cycles' = [cycles EXCEPT ![c] = [@ EXCEPT !.pc = "station", !.trigger = "mount"]]
          /\ arg' = c
    /\ lastOp' = "mount"
    /\ before' = Held(storage)
    /\ result' = <<>>
    /\ raised' = FALSE
    /\ UNCHANGED <<storage, now, log, microtask>>

\* The setInterval callback: fetchWeatherData(), loadHistoricalData()
TimerFires ==
    /\ page.interval > 0
    /\ microtask = 0
    /\ page.started < MaxCycles
    /\ LET c == page.started + 1 IN
          /\ page' = Loaded(Started(page, "timer"), storage)
          /\ cycles' = [cycles EXCEPT ![c] = [@ EXCEPT !.pc = "station", !.trigger = "timer"]]
          /\ arg' = c
    /\ lastOp' = "timer"
    /\ before' = Held(storage)
    /\ result' = <<>>
    /\ raised' = FALSE
    /\ UNCHANGED <<storage, now, log, microtask>>

\* A click on Refresh, which is disabled while isLoading: fetchWeatherData()
RefreshClick ==
    /\ page.phase = "mounted"
    /\ ~page.isLoading
    /\ microtask = 0
    /\ page.started < MaxCycles
    /\ LET c == page.started + 1 IN
          /\ page' = Started(page, "click")
          /\ cycles' = [cycles EXCEPT ![c] = [@ EXCEPT !.pc = "station", !.trigger = "click"]]
          /\ arg' = c
    /\ lastOp' = "click"
    /\ before' = Held(storage)
    /\ result' = <<>>
    /\ raised' = FALSE
    /\ UNCHANGED <<storage, now, log, microtask>>

\* An unmount that leaves the interval running
Unmount_keepTimer ==
    /\ page.phase = "mounted"
    /\ microtask = 0
    /\ page' = [page EXCEPT !.phase = "unmounted"]
    /\ lastOp' = "unmount"
    /\ arg' = 0
    /\ before' = Held(storage)
    /\ result' = <<>>
    /\ raised' = FALSE
    /\ UNCHANGED <<storage, now, log, cycles, microtask>>

\* The unmount: the effect's cleanup, clearInterval(interval)
Unmount ==
    /\ page.phase = "mounted"
    /\ microtask = 0
    /\ page' = [page EXCEPT !.phase = "unmounted", !.interval = 0]
    /\ lastOp' = "unmount"
    /\ arg' = 0
    /\ before' = Held(storage)
    /\ result' = <<>>
    /\ raised' = FALSE
    /\ UNCHANGED <<storage, now, log, cycles, microtask>>

\* const stationData = result.data
stationDataOf(fetched) == fetched.data

\* fetchWeatherData of invocation c from the moment fetchFromWeatherStation
\* has answered `fetched` up to await fetchOpenWeatherData(), over a setItem
\* that throws or not. A null answer, or an error out of saveWeatherReading,
\* goes to the catch clause, which ends with setIsLoading(false).
AfterStation(c, response, fetched, setItemThrows) ==
    IF fetched = Null
    THEN /\ page' = [SetState([page EXCEPT !.connectionError = "service returned null",
                                         !.isLoading = FALSE])
                     EXCEPT !.toast = "Connection Error"]
         /\ cycles' = [cycles EXCEPT ![c] =
                [@ EXCEPT !.pc = "done", !.response = response, !.fetched = fetched]]
         /\ UNCHANGED <<storage, log, microtask>>
    ELSE LET stationData == stationDataOf(fetched)
             saved == saveWeatherReadingOutcome(storage, stationData, now, setItemThrows)
             shown == [page EXCEPT !.currentWeather = stationData]
         IN IF saved.err # "none"
            THEN /\ page' = [SetState([shown EXCEPT !.connectionError = saved.err,
                                                !.isLoading = FALSE])
                             EXCEPT !.toast = "Connection Error"]
                 /\ cycles' = [cycles EXCEPT ![c] =
                        [@ EXCEPT !.pc = "done", !.response = response, !.fetched = fetched]]
                 /\ UNCHANGED <<storage, log, microtask>>
            ELSE /\ storage' = saved.val
                 /\ log' = IF setItemThrows THEN log ELSE Append(log, stationData)
                 /\ page' = [SetState([shown EXCEPT
                                  !.lastUpdate = now,
                                  !.usingMockData = fetched.isMock,
                                  !.openWeatherData = TRUE])
                             EXCEPT !.toast = IF fetched.isMock THEN "Using mock data"
                                              ELSE "Weather data updated"]
                 /\ cycles' = [cycles EXCEPT ![c] =
                        [@ EXCEPT !.pc = "finish", !.response = response,
                                  !.fetched = fetched, !.records = @ + 1]]
                 /\ microtask' = c

\* The station answers invocation c, and fetchWeatherData goes on
StationAnswers(c, response, v) ==
    /\ microtask = 0
    /\ cycles[c].pc = "station"
    /\ LET fetched == fetchFromWeatherStation(response, now, v).val IN
          AfterStation(c, response, fetched, FALSE)
    /\ lastOp' = "station"
    /\ arg' = c
    /\ before' = Held(storage)
    /\ result' = <<>>
    /\ raised' = FALSE
    /\ UNCHANGED now

\* The same over a localStorage whose setItem throws
StationAnswersSaveFails(c, response, v) ==
    /\ microtask = 0
    /\ cycles[c].pc = "station"
    /\ LET fetched == fetchFromWeatherStation(response, now, v).val IN
          AfterStation(c, response, fetched, TRUE)
    /\ lastOp' = "saveFailed"
    /\ arg' = c
    /\ before' = Held(storage)
    /\ result' = <<>>
    /\ raised' = FALSE
    /\ UNCHANGED now

\* The continuation after await fetchOpenWeatherData(): setIsLoading(false)
Finish(c) ==
    /\ microtask = c
    /\ cycles[c].pc = "finish"
    /\ page' = SetState([page EXCEPT !.isLoading = FALSE])
    /\ cycles' = [cycles EXCEPT ![c] = [@ EXCEPT !.pc = "done"]]
    /\ microtask' = 0
    /\ lastOp' = "finish"
    /\ arg' = c
    /\ before' = Held(storage)
    /\ result' = <<>>
    /\ raised' = FALSE
    /\ UNCHANGED <<storage, now, log>>

\* The page is watched up to this instant
MaxPageTime == 1

\* Time passes between two tasks
PageTick == microtask = 0 /\ now < MaxPageTime /\ Tick /\ UNCHANGED pageVars

\* The page opens over a store never written or over one holding text that
\* is no JSON
InitPage == Init /\ storage \in {NoItem, Malformed}

NextPage ==
    \/ MountEffect
    \/ TimerFires
    \/ RefreshClick
    \/ Unmount
    \/ \E c \in 1..MaxCycles, response \in Responses, v \in MockValues :
           StationAnswers(c, response, v)
    \/ \E c \in 1..MaxCycles : Finish(c)
    \/ PageTick

SpecPage == InitPage /\ [][NextPage]_vars

NextPageFaulty ==
    \/ NextPage
    \/ \E c \in 1..MaxCycles, response \in Responses, v \in MockValues :
           StationAnswersSaveFails(c, response, v)

SpecPageFaulty == InitPage /\ [][NextPageFaulty]_vars

----------------------------------------------------------------------------
(* Claims about the reading source and the page                             *)

\* Invocation c of fetchWeatherData has its answer from the service
Answered(c) == cycles[c].pc \in {"finish", "done"}

\* A payload that is a non-null object with the seven properties numeric
Conforming(payload) ==
    /\ payload.kind \in {"object", "array"}
    /\ \A f \in NumericFields : payload.types[f] = "number"

\* The station gave no reading: no response, a non-OK one, no JSON, or a
\* payload that does not conform
SourceFailed(response) == response.does # "json" \/ ~Conforming(response.payload)

C14_AcceptedIffConforming ==
    \A c \in 1..MaxCycles : (Answered(c) /\ cycles[c].response.does = "json") =>
        /\ cycles[c].fetched # Null
        /\ (cycles[c].fetched.isMock = FALSE) <=> Conforming(cycles[c].response.payload)

\* A payload with everything but Rain, rejected
C14_Witness ==
    \E c \in 1..MaxCycles :
        /\ Answered(c)
        /\ cycles[c].response.does = "json"
        /\ cycles[c].response.payload.kind = "object"
        /\ cycles[c].response.payload.types["Rain"] = "undefined"
        /\ \A f \in NumericFields \ {"Rain"} : cycles[c].response.payload.types[f] = "number"
        /\ cycles[c].fetched # Null
        /\ cycles[c].fetched.isMock = TRUE

\* Invocation c of fetchWeatherData has just run to its end
CycleEnds(c) == lastOp \in {"station", "saveFailed", "finish"} /\ arg = c /\ cycles[c].pc = "done"

C16_BothPersisted ==
    /\ Len(All) = Len(log)
    /\ \A i \in 1..Len(log) : All[i] = log[Len(log) + 1 - i]
    /\ \A c \in 1..MaxCycles : (Answered(c) /\ cycles[c].fetched # Null) =>
           \E i \in 1..Len(All) : All[i] = cycles[c].fetched.data

\* The first invocation was answered after the second, which was started
\* while the first was waiting: both readings are there
C16_Witness ==
    /\ Answered(1) /\ Answered(2)
    /\ cycles[1].fetched # cycles[2].fetched
    /\ Len(All) = 2
    /\ All[1] = cycles[1].fetched.data
    /\ All[2] = cycles[2].fetched.data

C11_WriteFailureSwallowed ==
    [][lastOp' = "saveFailed" =>
          /\ storage' = storage
          /\ cycles'[arg'].pc = "finish"
          /\ page'.connectionError = "null"
          /\ page'.toast # "Connection Error"
          /\ page.phase = "mounted" => page'.currentWeather = cycles'[arg'].fetched.data]_vars

\* The reading is shown although nothing was persisted
C11_Witness ==
    /\ lastOp = "saveFailed"
    /\ page.phase = "mounted"
    /\ page.currentWeather = cycles[arg].fetched.data
    /\ Len(All) = 0
    /\ page.connectionError = "null"

\* C19: polling is at a fixed interval with no backoff: while the page is
\* mounted every timer tick starts one fetch cycle and one history load,
\* whatever became of the fetches before it, and after the unmount the
\* timer starts no fetch cycle.
C19_FixedPolling ==
    [][/\ page'.phase = "mounted" => page'.interval = PollMinutes
       /\ lastOp' = "timer" =>
             /\ page.phase = "mounted"
             /\ page'.started = page.started + 1
             /\ cycles'[page'.started].pc = "station"
             /\ page'.historicalData = All
       /\ page.phase = "unmounted" => (page'.started = page.started /\ page'.interval = 0)]_vars

\* A timer tick started a fetch while the one before it was still waiting
C19_Witness ==
    /\ lastOp = "timer"
    /\ arg = 2
    /\ cycles[1].pc = "station"
    /\ cycles[2].pc = "station"
    /\ page.started = 2

\* C20: when a poll cycle (fetchWeatherData with loadHistoricalData, on
\* mount and on each timer tick) has completed, the history shown to the
\* charts equals all() and so contains the reading recorded in that cycle.
C20_HistoryCurrent ==
    \A c \in 1..MaxCycles :
        (CycleEnds(c) /\ cycles[c].trigger \in {"mount", "timer"} /\ page.phase = "mounted") =>
            page.historicalData = All

\* A reading with its seven numeric fields populated
Populated(reading) == \A f \in NumericFields : f \in DOMAIN reading /\ reading[f] \in Int

InFlight(c) == cycles[c].pc \in {"station", "finish"}

\* C22: the loading flag follows the fetches: isLoading is true in every
\* state in which some fetchWeatherData invocation is in flight, and false
\* once every started invocation has finished.
C22_LoadingFollows ==
    page.phase = "mounted" =>
        (page.isLoading <=> \E c \in 1..MaxCycles : InFlight(c))

\* C23: fetchFromWeatherStation always completes with a reading that is not
\* null and has its timestamp populated, and never rejects, whatever the
\* station does, so the "service returned null" branch of fetchWeatherData
\* is never taken.
C23_AlwaysAReading ==
    /\ \A response \in Responses, v \in MockValues :
           LET out == fetchFromWeatherStation(response, now, v) IN
           /\ out.err = "none"
           /\ out.val # Null
           /\ Truthy(out.val.data.timestamp)
    /\ \A c \in 1..MaxCycles : Answered(c) =>
           /\ cycles[c].fetched # Null
           /\ Truthy(cycles[c].fetched.data.timestamp)
    /\ page.connectionError # "service returned null"

\* A station payload that came without timestamp, and a body that was no
\* JSON, both answered with a stamped reading
C23_Witness ==
    /\ Answered(1) /\ Answered(2)
    /\ cycles[1].response.does = "json"
    /\ cycles[1].fetched.isMock = FALSE
    /\ ~Truthy(cycles[1].response.payload.data.timestamp)
    /\ cycles[1].fetched.data.timestamp = toISOString(now)
    /\ cycles[2].response.does = "notJsonBody"
    /\ Truthy(cycles[2].fetched.data.timestamp)

\* C24: the read operations getHistoricalData, getDataForPeriod and
\* getAverageForPeriod leave the persisted blob as it is, so that they do not
\* alter what a later getHistoricalData returns, and they neither repair nor
\* remove a corrupt blob.
C24_ReadsLeaveBlob ==
    [][lastOp' \in {"all", "forWindow", "average"} =>
          /\ storage' = storage
          /\ getHistoricalData(storage').val = All]_vars

\* A read of text that is no JSON, which is still there after it
C24_Witness ==
    /\ lastOp = "all"
    /\ before.form = "malformed"
    /\ storage = Malformed
    /\ result = <<>>

\* a is b with some of its elements left out, the rest in b's order
RECURSIVE IsSubsequence(_, _)
IsSubsequence(a, b) ==
    IF a = <<>> THEN TRUE
    ELSE IF b = <<>> THEN FALSE
    ELSE IF Head(a) = Head(b) THEN IsSubsequence(Tail(a), Tail(b))
    ELSE IsSubsequence(a, Tail(b))

\* C25: forWindow is monotone in the window: at one time and store state,
\* for h1 <= h2 every reading of forWindow(h1) is in forWindow(h2), and
\* forWindow(h) is a subsequence of all() of length at most 1008. (arg is
\* the window just asked for, compared with every other window.)
C25_WindowMonotone ==
    (lastOp = "forWindow" /\ ~raised) =>
        /\ IsSubsequence(result, All)
        /\ Len(result) <= 1008
        /\ \A h \in 0..MaxWindow :
               LET other == getDataForPeriod(storage, h, now) IN
               /\ h <= arg => IsSubsequence(other, result)
               /\ h >= arg => IsSubsequence(result, other)

\* A window that holds a reading which the windows shorter than it leave
\* out and which is not all that is stored
C25_Witness ==
    /\ lastOp = "forWindow"
    /\ arg = MaxWindow
    /\ Len(result) = 1
    /\ Len(All) = 2
    /\ getDataForPeriod(storage, 0, now) = <<>>

----------------------------------------------------------------------------
(* WeatherService instances: Index constructs one on every render. The     *)
(* variable storage is what localStorage holds under weatherHistoricalData; *)
(* what it holds under any other key stays outside the model.               *)

STORAGE_KEY == "weatherHistoricalData"

\* Index is watched over this many renders, each with its own instance
MaxInstances == 2

Instances == 1..MaxInstances

\* A WeatherService whose key is its own
newWeatherService_ownKey(i) ==
    [STORAGE_KEY |-> IF i = 1 THEN STORAGE_KEY ELSE "weatherHistoricalData-other",
     MAX_RECORDS |-> MAX_RECORDS]

\* new WeatherService(), the i-th one constructed: its fields
newWeatherService(i) == [STORAGE_KEY |-> STORAGE_KEY, MAX_RECORDS |-> MAX_RECORDS]

\* localStorage.getItem(key), local holding storedData under STORAGE_KEY
getItem(storedData, key) == IF key = STORAGE_KEY THEN storedData ELSE NoItem

\* What localStorage holds under STORAGE_KEY after setItem(key, value) or,
\* with value NoItem, removeItem(key)
setItem(storedData, key, value) == IF key = STORAGE_KEY THEN value ELSE storedData

\* arg here: the instance the call went through and the instance the last
\* write since the last clear went through
InitInstances ==
    /\ storage \in {NoItem} \cup CorruptBlobs
    /\ now = 0
    /\ log = <<>>
    /\ lastOp = "init"
    /\ arg = [instance |-> 0, writer |-> 0]
    /\ before = Held(storage)
    /\ result = <<>>
    /\ raised = FALSE
    /\ page = PageInit
    /\ cycles = NoCycles
    /\ microtask = 0

\* saveWeatherReading(data) through instance i
RecordVia(i, data) ==
    /\ LET key == newWeatherService(i).STORAGE_KEY IN
           storage' = setItem(storage, key, saveWeatherReading(getItem(storage, key), data, now))
    /\ log' = Append(log, data)
    /\ lastOp' = "recordVia"
    /\ arg' = [instance |-> i, writer |-> i]
    /\ before' = Held(storage)
    /\ result' = <<>>
    /\ raised' = FALSE
    /\ UNCHANGED now

\* getHistoricalData() through instance i
AllVia(i) ==
    /\ LET key == newWeatherService(i).STORAGE_KEY
           out == getHistoricalData(getItem(storage, key))
       IN /\ result' = out.val
          /\ raised' = (out.err # "none")
    /\ lastOp' = "allVia"
    /\ arg' = [instance |-> i, writer |-> arg.writer]
    /\ before' = Held(storage)
    /\ UNCHANGED <<storage, now, log>>

\* clearHistoricalData() through instance i
ClearVia(i) ==
    /\ LET key == newWeatherService(i).STORAGE_KEY IN
           storage' = setItem(storage, key, clearHistoricalData(getItem(storage, key)))
    /\ log' = <<>>
    /\ lastOp' = "clearVia"
    /\ arg' = [instance |-> i, writer |-> 0]
    /\ before' = Held(storage)
    /\ result' = <<>>
    /\ raised' = FALSE
    /\ UNCHANGED now

NextInstances ==
    \/ \E i \in Instances, data \in Readings :
           Len(log) < MaxRecorded /\ RecordVia(i, data) /\ UNCHANGED pageVars
    \/ \E i \in Instances : AllVia(i) /\ UNCHANGED pageVars
    \/ \E i \in Instances : ClearVia(i) /\ UNCHANGED pageVars

SpecInstances == InitInstances /\ [][NextInstances]_vars

\* C26: a WeatherService instance holds no history of its own: all
\* instances work on the one blob under the fixed key, so what is recorded
\* through one instance is returned by getHistoricalData of any other, and a
\* clear through one empties the history for all.
C26_OneBlob ==
    /\ lastOp = "allVia" =>
           /\ Len(result) = Len(log)
           /\ \A n \in 1..Len(log) : Shows(result[n], log[Len(log) + 1 - n])
    /\ lastOp \in {"recordVia", "clearVia"} =>
           \A i \in Instances :
               LET seen == getHistoricalData(getItem(storage, newWeatherService(i).STORAGE_KEY)).val IN
               /\ Len(seen) = Len(log)
               /\ \A n \in 1..Len(log) : Shows(seen[n], log[Len(log) + 1 - n])

\* A reading recorded through one instance, read through another
C26_Witness ==
    /\ lastOp = "allVia"
    /\ arg.instance = 2
    /\ arg.writer = 1
    /\ Len(result) = 1
    /\ Shows(result[1], log[1])

====
